---- MODULE Spec2Model ----
(***************************************************************************)
(* Model of the two metric visualisation scripts of sentinel:              *)
(*   tools/visualize_metrics.py   (Batch Report Generator, main())         *)
(*   rust-port/metrics_visualizer.py (Live Plot Server, GET /plot)         *)
(* Durations are in tenths of a millisecond; a missing CSV cell (NaN) is   *)
(* the value NaN.  pyplot's process-wide figure registry is the sequence   *)
(* figs, whose last element is the current figure.                         *)
(***************************************************************************)
EXTENDS Integers, Sequences, FiniteSets, Bags, TLC

VARIABLES summaryFile, detailFile, outputs, outputs0, stdout, pc, attempted,
          figs, metricsFile, fileVer, reqs

vars == <<summaryFile, detailFile, outputs, outputs0, stdout, pc, attempted,
          figs, metricsFile, fileVer, reqs>>

batchVars == <<summaryFile, detailFile, outputs, outputs0, stdout, pc, attempted>>
serverVars == <<metricsFile, fileVer, reqs>>

-----------------------------------------------------------------------------
(* Bounds and value domains                                                *)

MaxRows == 3
MainRows == 1
MaxSummaryRows == 2
MaxFiles == 10
MaxSamples == 2
MaxRequests == 2
MaxWrites == 2

NaN == -1
Timestamps == {1, 2}
Stages == {"parse", "index"}
Durations == {NaN, 124, 126}

OutputFiles == {"overall_trend.png", "stage_breakdown.png",
                "stage_trends.png", "cache_effectiveness.png"}
ChartOps == {"overall_trend", "stage_breakdown", "stage_trends",
             "cache_effectiveness"}
SummaryCols == {"TotalDuration(ms)", "MemoryUsed(MB)", "FileCount", "CachedFiles"}
DetailCols == {"Stage", "Duration(ms)"}

SeqsUpTo(S, n) == UNION {[1..k -> S] : k \in 0..n}
Range(s) == {s[i] : i \in DOMAIN s}

AbsentFile == [exists |-> FALSE, cols |-> {}, rows |-> <<>>]
Table(cols, rows) == [exists |-> TRUE, cols |-> cols, rows |-> rows]

NoOutput == [kind |-> "absent"]
OldOutput == [kind |-> "old"]

DetailRow(ts, st, d) == [Timestamp |-> ts, Stage |-> st, Duration |-> d]
DetailRowValues == {DetailRow(ts, st, d) : ts \in Timestamps, st \in Stages, d \in Durations}

SummaryRow(ts, total, cached) ==
    [Timestamp |-> ts, TotalDuration |-> 1000 * ts, MemoryUsed |-> 64 * ts,
     FileCount |-> total, CachedFiles |-> cached]

Msg(m, a) == [msg |-> m, args |-> a]

-----------------------------------------------------------------------------
(* pyplot figure registry                                                  *)

NextNum(g) == IF g = <<>> THEN 1
              ELSE 1 + CHOOSE n \in {g[i].num : i \in DOMAIN g} :
                          \A j \in DOMAIN g : g[j].num <= n

\* plt.figure() / plt.subplots(): a new figure becomes the current one
NewFigure(g, artists) == Append(g, [num |-> NextNum(g), artists |-> artists])

\* plt.close(): destroys the current figure
CloseCurrent(g) == IF g = <<>> THEN g ELSE SubSeq(g, 1, Len(g) - 1)


\* faulty variant: savefig renders the first figure of the registry
Savefig_First(g) == g[1].artists

\* plt.savefig(): renders the current figure
Savefig(g) == g[Len(g)].artists

-----------------------------------------------------------------------------
(* Batch Report Generator: the four chart functions as operators.          *)
(* Each returns [ok, fig, chart, out]: ok = returned without raising,      *)
(* fig = a figure had been created, chart = what was drawn on it,          *)
(* out = lines printed.                                                    *)

Res(ok, fig, chart, out) == [ok |-> ok, fig |-> fig, chart |-> chart, out |-> out]

Points(rows, field) == [i \in DOMAIN rows |-> <<rows[i].Timestamp, rows[i][field]>>]

visualize_overall_trend(df) ==
    LET blank == [kind |-> "overall_trend", duration |-> <<>>, memory |-> <<>>]
        ax1 == [blank EXCEPT !.duration = Points(df.rows, "TotalDuration")]
        ax2 == [ax1 EXCEPT !.memory = Points(df.rows, "MemoryUsed")]
    IN  IF "TotalDuration(ms)" \notin df.cols THEN Res(FALSE, TRUE, blank, <<>>)
        ELSE IF "MemoryUsed(MB)" \notin df.cols THEN Res(FALSE, TRUE, ax1, <<>>)
        ELSE Res(TRUE, TRUE, ax2, <<>>)

\* details_df['Timestamp'].max(); 0 stands for NaT (empty column)
LatestTimestamp(rows) ==
    IF rows = <<>> THEN 0
    ELSE CHOOSE t \in {rows[i].Timestamp : i \in DOMAIN rows} :
            \A i \in DOMAIN rows : rows[i].Timestamp <= t

LatestRun(rows) == SelectSeq(rows, LAMBDA r : r.Timestamp = LatestTimestamp(rows))

Perms(n) == {p \in [1..n -> 1..n] : \A i, j \in 1..n : i # j => p[i] # p[j]}

\* sort order of sort_values(ascending=False): larger first, NaN last
Before(a, b) == b = NaN \/ (a # NaN /\ a >= b)

\* faulty variant: the rows sorted by duration ascending
sort_values_Ascending(rows) ==
    {s \in {[i \in 1..Len(rows) |-> rows[p[i]]] : p \in Perms(Len(rows))} :
        \A i, j \in 1..Len(rows) : i < j => Before(s[j].Duration, s[i].Duration)}

\* the results sort_values('Duration(ms)', ascending=False) may give: the sort
\* is not stable, so equal keys come in any order
sort_values(rows) ==
    {s \in {[i \in 1..Len(rows) |-> rows[p[i]]] : p \in Perms(Len(rows))} :
        \A i, j \in 1..Len(rows) : i < j => Before(s[i].Duration, s[j].Duration)}

\* x position matplotlib gives a string category: the number of distinct
\* categories seen before its first occurrence
CategoryIndex(s, i) ==
    LET j0 == CHOOSE j \in 1..i : s[j].Stage = s[i].Stage /\
                     \A k \in 1..(j - 1) : s[k].Stage # s[i].Stage
    IN  Cardinality({s[k].Stage : k \in 1..(j0 - 1)})

Bars(s) == [i \in DOMAIN s |->
              [stage |-> s[i].Stage, x |-> CategoryIndex(s, i), height |-> s[i].Duration]]

\* faulty variant: the label rounds to the nearest integer
IntLabel_Round(height) == (height + 5) \div 10

\* f'{int(height)}' for a height in tenths: int() drops the fraction
IntLabel(height) == height \div 10

BarLabel(bar) == [x |-> bar.x, y |-> bar.height + 50, text |-> IntLabel(bar.height)]

visualize_stage_breakdown(df, sorted) ==
    LET blank == [kind |-> "stage_breakdown", title |-> 0, bars |-> <<>>, labels |-> <<>>]
        bars == Bars(sorted)
        drawn == [blank EXCEPT !.bars = bars]
        titled == [drawn EXCEPT !.title = LatestTimestamp(df.rows)]
        nans == {i \in DOMAIN bars : bars[i].height = NaN}
        k == IF nans = {} THEN Len(bars)
             ELSE (CHOOSE i \in nans : \A j \in nans : i <= j) - 1
        labelled == [titled EXCEPT !.labels = [i \in 1..k |-> BarLabel(bars[i])]]
    IN  IF "Duration(ms)" \notin df.cols THEN Res(FALSE, FALSE, blank, <<>>)
        ELSE IF "Stage" \notin df.cols THEN Res(FALSE, TRUE, blank, <<>>)
        ELSE IF df.rows = <<>> THEN Res(FALSE, TRUE, drawn, <<>>)
        ELSE IF nans # {} THEN Res(FALSE, TRUE, labelled, <<>>)
        ELSE Res(TRUE, TRUE, labelled, <<>>)

GroupRows(rows, ts, st) == SelectSeq(rows, LAMBDA r : r.Timestamp = ts /\ r.Stage = st)

\* faulty variant: the last entry of the group instead of the first
first_Last(group) ==
    LET nn == SelectSeq(group, LAMBDA r : r.Duration # NaN)
    IN  IF nn = <<>> THEN NaN ELSE nn[Len(nn)].Duration

\* GroupBy.first(): the first non-null entry of the group, NaN when all are null
first(group) ==
    LET nn == SelectSeq(group, LAMBDA r : r.Duration # NaN)
    IN  IF nn = <<>> THEN NaN ELSE nn[1].Duration

SortAsc(S) == CHOOSE s \in [1..Cardinality(S) -> S] :
                 \A i, j \in 1..Cardinality(S) : i < j => s[i] < s[j]

pivot_table(rows) ==
    LET keys == {<<rows[i].Timestamp, rows[i].Stage>> : i \in DOMAIN rows}
        agged == [k \in keys |-> first(GroupRows(rows, k[1], k[2]))]
        kept == {k \in keys : agged[k] # NaN}
        index == SortAsc({k[1] : k \in kept})
        columns == {k[2] : k \in kept}
    IN  [index |-> index, columns |-> columns,
         cell |-> [k \in Range(index) \X columns |->
                     IF k \in kept THEN agged[k] ELSE NaN]]

visualize_stage_trends(df) ==
    LET blank == [kind |-> "stage_trends", lines |-> <<>>]
        pivot_df == pivot_table(df.rows)
        lines == [st \in pivot_df.columns |->
                    [i \in DOMAIN pivot_df.index |->
                       <<pivot_df.index[i], pivot_df.cell[<<pivot_df.index[i], st>>]>>]]
    IN  IF ~(DetailCols \subseteq df.cols) THEN Res(FALSE, FALSE, blank, <<>>)
        ELSE Res(TRUE, TRUE, [blank EXCEPT !.lines = lines], <<>>)

\* round(num/den) to the nearest integer, ties to even
RoundHalfEven(num, den) ==
    LET q == num \div den
        r == num % den
    IN  IF 2 * r > den THEN q + 1
        ELSE IF 2 * r < den THEN q
        ELSE IF q % 2 = 0 THEN q ELSE q + 1

\* f'{cached / total * 100:.1f}%': the digits before and after the point
Format1f(cached, total) ==
    LET tenths == RoundHalfEven(1000 * cached, total)
    IN  [whole |-> tenths \div 10, frac |-> tenths % 10, suffix |-> "%"]

\* faulty variant: the guard tests the cached count
Annotated_Cached(cached, total) == cached > 0

\* the guard of the annotation
Annotated(cached, total) == total > 0

\* faulty variant: the chart is skipped only when both columns are absent
visualize_cache_effectiveness_And(df) ==
    LET rows == df.rows
        n == Len(rows)
        chart == [kind |-> "cache_effectiveness",
                  bars1 |-> [i \in 1..n |-> [x |-> i - 1, bottom |-> 0, height |-> rows[i].CachedFiles]],
                  bars2 |-> <<>>, annotations |-> <<>>, xticklabels |-> <<>>]
    IN  IF "CachedFiles" \notin df.cols /\ "FileCount" \notin df.cols
        THEN Res(TRUE, FALSE, chart, <<Msg("Cache data not available in summary file", <<>>)>>)
        ELSE Res(TRUE, TRUE, chart, <<>>)

visualize_cache_effectiveness(df) ==
    LET blank == [kind |-> "cache_effectiveness", bars1 |-> <<>>, bars2 |-> <<>>,
                  annotations |-> <<>>, xticklabels |-> <<>>]
        rows == df.rows
        n == Len(rows)
        bars1 == [i \in 1..n |-> [x |-> i - 1, bottom |-> 0, height |-> rows[i].CachedFiles]]
        bars2 == [i \in 1..n |-> [x |-> i - 1, bottom |-> rows[i].CachedFiles,
                                  height |-> rows[i].FileCount - rows[i].CachedFiles]]
        idx == SelectSeq([i \in 1..n |-> i],
                         LAMBDA i : Annotated(rows[i].CachedFiles, rows[i].FileCount))
        annotations == [k \in DOMAIN idx |->
                          [x |-> idx[k] - 1, y |-> rows[idx[k]].FileCount + 5,
                           text |-> Format1f(rows[idx[k]].CachedFiles, rows[idx[k]].FileCount)]]
        chart == [kind |-> "cache_effectiveness", bars1 |-> bars1, bars2 |-> bars2,
                  annotations |-> annotations,
                  xticklabels |-> [i \in 1..n |-> rows[i].Timestamp]]
    IN  IF "CachedFiles" \notin df.cols \/ "FileCount" \notin df.cols
        THEN Res(TRUE, FALSE, blank, <<Msg("Cache data not available in summary file", <<>>)>>)
        ELSE Res(TRUE, TRUE, chart, <<>>)

-----------------------------------------------------------------------------
(* Batch Report Generator: main() as a sequence of steps                   *)

OutputOf(op) == CASE op = "overall_trend" -> "overall_trend.png"
                  [] op = "stage_breakdown" -> "stage_breakdown.png"
                  [] op = "stage_trends" -> "stage_trends.png"
                  [] op = "cache_effectiveness" -> "cache_effectiveness.png"

Created == <<Msg("Visualizations created in metrics directory:", <<>>),
             Msg("  - overall_trend.png", <<>>),
             Msg("  - stage_breakdown.png", <<>>),
             Msg("  - stage_trends.png", <<>>),
             Msg("  - cache_effectiveness.png", <<>>)>>

\* faulty variant: main() carries on after a chart function raised
Call_Isolated(op, res, nextpc, tail) ==
    /\ attempted' = attempted \cup {op}
    /\ stdout' = stdout \o res.out \o tail
    /\ outputs' = IF res.ok /\ res.fig
                  THEN [outputs EXCEPT ![OutputOf(op)] = Savefig(NewFigure(figs, res.chart))]
                  ELSE outputs
    /\ figs' = IF res.fig /\ ~res.ok THEN NewFigure(figs, res.chart) ELSE figs
    /\ pc' = nextpc
    /\ UNCHANGED <<summaryFile, detailFile, outputs0, serverVars>>

\* one call of a chart function from main(): res is what the function did,
\* an exception it raises propagates out of main()
Call(op, res, nextpc, tail) ==
    /\ attempted' = attempted \cup {op}
    /\ IF res.ok
       THEN /\ stdout' = stdout \o res.out \o tail
            /\ outputs' = IF res.fig
                          THEN [outputs EXCEPT ![OutputOf(op)] =
                                   Savefig(NewFigure(figs, res.chart))]
                          ELSE outputs
            /\ figs' = IF res.fig THEN CloseCurrent(NewFigure(figs, res.chart)) ELSE figs
            /\ pc' = nextpc
       ELSE /\ stdout' = stdout \o res.out
            /\ outputs' = outputs
            /\ figs' = IF res.fig THEN NewFigure(figs, res.chart) ELSE figs
            /\ pc' = "crashed"
    /\ UNCHANGED <<summaryFile, detailFile, outputs0, serverVars>>

\* faulty variant: load_data() does not look for the details file
LoadData_NoDetailsCheck ==
    /\ pc = "start"
    /\ IF ~summaryFile.exists
       THEN /\ stdout' = Append(stdout, Msg("Error: Summary file not found at",
                                            <<"metrics/performance_summary.csv">>))
            /\ pc' = "done"
       ELSE /\ stdout' = Append(stdout, Msg("Loaded", <<Len(summaryFile.rows),
                                                        Len(detailFile.rows)>>))
            /\ pc' = "overall_trend"
    /\ UNCHANGED <<summaryFile, detailFile, outputs, outputs0, attempted, figs, serverVars>>

\* main() up to the return of load_data()
LoadData ==
    /\ pc = "start"
    /\ IF ~summaryFile.exists
       THEN /\ stdout' = Append(stdout, Msg("Error: Summary file not found at",
                                            <<"metrics/performance_summary.csv">>))
            /\ pc' = "done"
       ELSE IF ~detailFile.exists
       THEN /\ stdout' = Append(stdout, Msg("Error: Details file not found at",
                                            <<"metrics/performance_details.csv">>))
            /\ pc' = "done"
       ELSE /\ stdout' = Append(stdout, Msg("Loaded", <<Len(summaryFile.rows),
                                                        Len(detailFile.rows)>>))
            /\ pc' = "overall_trend"
    /\ UNCHANGED <<summaryFile, detailFile, outputs, outputs0, attempted, figs, serverVars>>

VisualizeOverallTrend ==
    /\ pc = "overall_trend"
    /\ Call("overall_trend", visualize_overall_trend(summaryFile), "stage_breakdown", <<>>)

VisualizeStageBreakdown ==
    /\ pc = "stage_breakdown"
    /\ \E sorted \in (IF "Duration(ms)" \in detailFile.cols
                      THEN sort_values(LatestRun(detailFile.rows)) ELSE {<<>>}) :
          Call("stage_breakdown", visualize_stage_breakdown(detailFile, sorted),
               "stage_trends", <<>>)

VisualizeStageTrends ==
    /\ pc = "stage_trends"
    /\ Call("stage_trends", visualize_stage_trends(detailFile), "cache_effectiveness", <<>>)

\* the last call of main(), and the report main() prints after it
VisualizeCacheEffectiveness ==
    /\ pc = "cache_effectiveness"
    /\ Call("cache_effectiveness", visualize_cache_effectiveness(summaryFile), "done", Created)

-----------------------------------------------------------------------------
(* Initial states                                                          *)

ServerIdle ==
    /\ metricsFile = [exists |-> FALSE, valid |-> FALSE, data |-> <<>>]
    /\ fileVer = 0
    /\ reqs = <<>>

Fresh(start) ==
    /\ pc = start
    /\ stdout = <<>>
    /\ attempted = {}
    /\ figs = <<>>
    /\ outputs = outputs0

MainSummaryTables ==
    {Table(c, [i \in 1..k |-> SummaryRow(i, 10, 4)]) : c \in SUBSET SummaryCols, k \in 0..MainRows}
MainDetailTables ==
    {Table(c, rows) : c \in SUBSET DetailCols, rows \in SeqsUpTo(DetailRowValues, MainRows)}
PriorOutputs == SUBSET OutputFiles

\* a run of the script: any input files, some output files left by an earlier run
InitMain ==
    /\ summaryFile \in {AbsentFile} \cup MainSummaryTables
    /\ detailFile \in {AbsentFile} \cup MainDetailTables
    /\ \E prior \in PriorOutputs :
          outputs0 = [f \in OutputFiles |-> IF f \in prior THEN OldOutput ELSE NoOutput]
    /\ Fresh("start")
    /\ ServerIdle

NextMain == \/ LoadData
            \/ VisualizeOverallTrend
            \/ VisualizeStageBreakdown
            \/ VisualizeStageTrends
            \/ VisualizeCacheEffectiveness

Spec == InitMain /\ [][NextMain]_vars

ValidSummary == Table(SummaryCols, <<SummaryRow(1, 10, 4)>>)
NoOutputs == [f \in OutputFiles |-> NoOutput]

\* visualize_stage_breakdown(details_df) on any loaded detail table
InitBreakdown ==
    /\ summaryFile = ValidSummary
    /\ detailFile \in {Table(DetailCols, rows) : rows \in SeqsUpTo(DetailRowValues, MaxRows)}
    /\ outputs0 = NoOutputs
    /\ Fresh("stage_breakdown")
    /\ ServerIdle

SpecBreakdown == InitBreakdown /\ [][VisualizeStageBreakdown]_vars

\* visualize_stage_trends(details_df) on any loaded detail table
InitTrends ==
    /\ summaryFile = ValidSummary
    /\ detailFile \in {Table(DetailCols, rows) : rows \in SeqsUpTo(DetailRowValues, MaxRows)}
    /\ outputs0 = NoOutputs
    /\ Fresh("stage_trends")
    /\ ServerIdle

SpecTrends == InitTrends /\ [][VisualizeStageTrends]_vars

CountPairs == {<<total, cached>> \in (0..MaxFiles) \X (0..MaxFiles) : cached <= total}

\* visualize_cache_effectiveness(summary_df) on any loaded summary table
InitCache ==
    /\ \E counts \in SeqsUpTo(CountPairs, MaxSummaryRows) :
          summaryFile = Table(SummaryCols,
                              [i \in DOMAIN counts |-> SummaryRow(i, counts[i][1], counts[i][2])])
    /\ detailFile = Table(DetailCols, <<>>)
    /\ outputs0 = NoOutputs
    /\ Fresh("cache_effectiveness")
    /\ ServerIdle

SpecCache == InitCache /\ [][VisualizeCacheEffectiveness]_vars

-----------------------------------------------------------------------------
(* Live Plot Server: GET /plot, one thread per request                     *)

Sample(t, zone, v) == [timestamp |-> [time |-> t, zone |-> zone],
                       files_per_second_wall_time |-> v]
SampleValues == {Sample(1, "Z", 3), Sample(2, "+00:00", 7)}

MissingFile == [exists |-> FALSE, valid |-> FALSE, data |-> <<>>]
MalformedFile == [exists |-> TRUE, valid |-> FALSE, data |-> <<>>]
MetricsFiles == {MissingFile, MalformedFile} \cup
                {[exists |-> TRUE, valid |-> TRUE, data |-> d] :
                    d \in SeqsUpTo(SampleValues, MaxSamples)}

\* m['timestamp'].replace('Z', '+00:00'), then datetime.fromisoformat
fromisoformat(ts) ==
    LET replaced == IF ts.zone = "Z" THEN [ts EXCEPT !.zone = "+00:00"] ELSE ts
    IN  [time |-> replaced.time, utcoffset |-> 0]

parse_metrics(data) ==
    [timestamps |-> [i \in DOMAIN data |-> fromisoformat(data[i].timestamp)],
     fps |-> [i \in DOMAIN data |-> data[i].files_per_second_wall_time]]

BlankPlot == [kind |-> "throughput", lines |-> <<>>, title |-> "", formatter |-> ""]

\* plt.gcf(): the current figure, created when there is none
Gcf(g) == IF g = <<>> THEN NewFigure(g, BlankPlot) ELSE g

\* plt.clf(): clears the current figure
Clf(g) == [Gcf(g) EXCEPT ![Len(Gcf(g))].artists = BlankPlot]

\* plt.plot(...), plt.title(...): drawn on the current figure
PlotLine(g, x, y) ==
    [Gcf(g) EXCEPT ![Len(Gcf(g))].artists.lines = Append(@, [x |-> x, y |-> y]),
                   ![Len(Gcf(g))].artists.title = "Files Processed per Second Over Time"]

\* plt.gca().xaxis.set_major_formatter(...): set on the current figure
FormatAxis(g) == [Gcf(g) EXCEPT ![Len(Gcf(g))].artists.formatter = "%H:%M:%S"]

\* the bytes savefig(buf, format='png') writes
PngEncode(artists) == <<[chunk |-> "IHDR", image |-> BlankPlot],
                        [chunk |-> "IDAT", image |-> artists],
                        [chunk |-> "IEND", image |-> BlankPlot]>>

NoResponse == [status |-> 0, mimetype |-> "", body |-> <<>>]

NewRequest == [pc |-> "figure", timestamps |-> <<>>, fps |-> <<>>,
               ver |-> 0, src |-> <<>>, response |-> NoResponse]

Idle == \A r \in DOMAIN reqs : reqs[r].pc = "done"

\* the server starts handling a GET /plot
AcceptRequest ==
    /\ Len(reqs) < MaxRequests
    /\ reqs' = Append(reqs, NewRequest)
    /\ UNCHANGED <<batchVars, figs, metricsFile, fileVer>>

\* a server that handles one request at a time
AcceptWhenIdle == Idle /\ AcceptRequest

\* line 24
Figure(r) ==
    /\ reqs[r].pc = "figure"
    /\ figs' = NewFigure(figs, BlankPlot)
    /\ reqs' = [reqs EXCEPT ![r].pc = "clf"]
    /\ UNCHANGED <<batchVars, metricsFile, fileVer>>

\* line 25
Clear(r) ==
    /\ reqs[r].pc = "clf"
    /\ figs' = Clf(figs)
    /\ reqs' = [reqs EXCEPT ![r].pc = "parse"]
    /\ UNCHANGED <<batchVars, metricsFile, fileVer>>

\* line 28; a missing or malformed file raises, and the request is answered 500
Parse(r) ==
    /\ reqs[r].pc = "parse"
    /\ IF metricsFile.exists /\ metricsFile.valid
       THEN /\ reqs' = [reqs EXCEPT ![r].pc = "plot",
                          ![r].timestamps = parse_metrics(metricsFile.data).timestamps,
                          ![r].fps = parse_metrics(metricsFile.data).fps,
                          ![r].ver = fileVer,
                          ![r].src = metricsFile.data]
       ELSE /\ reqs' = [reqs EXCEPT ![r].pc = "done", ![r].ver = fileVer,
                          ![r].response = [status |-> 500, mimetype |-> "text/html",
                                           body |-> <<>>]]
    /\ UNCHANGED <<batchVars, figs, metricsFile, fileVer>>

\* lines 31-36
Plot(r) ==
    /\ reqs[r].pc = "plot"
    /\ figs' = PlotLine(figs, reqs[r].timestamps, reqs[r].fps)
    /\ reqs' = [reqs EXCEPT ![r].pc = "format"]
    /\ UNCHANGED <<batchVars, metricsFile, fileVer>>

\* lines 39-46
Format(r) ==
    /\ reqs[r].pc = "format"
    /\ figs' = FormatAxis(figs)
    /\ reqs' = [reqs EXCEPT ![r].pc = "savefig"]
    /\ UNCHANGED <<batchVars, metricsFile, fileVer>>

\* lines 49-52 and plot(): the buffer is sent as image/png
Save(r) ==
    /\ reqs[r].pc = "savefig"
    /\ figs' = Gcf(figs)
    /\ reqs' = [reqs EXCEPT ![r].pc = "done",
                  ![r].response = [status |-> 200, mimetype |-> "image/png",
                                   body |-> PngEncode(Savefig(Gcf(figs)))]]
    /\ UNCHANGED <<batchVars, metricsFile, fileVer>>

\* the analysis tool rewrites (or removes) metrics/metrics.json
WriteMetrics ==
    /\ fileVer < MaxWrites
    /\ \E f \in MetricsFiles : f # metricsFile /\ metricsFile' = f
    /\ fileVer' = fileVer + 1
    /\ UNCHANGED <<batchVars, figs, reqs>>

InitServer ==
    /\ summaryFile = AbsentFile
    /\ detailFile = AbsentFile
    /\ outputs0 = NoOutputs
    /\ Fresh("start")
    /\ metricsFile \in MetricsFiles
    /\ fileVer = 0
    /\ reqs = <<>>

NextServerSeq == \/ AcceptWhenIdle
                 \/ WriteMetrics
                 \/ \E r \in DOMAIN reqs : Figure(r)
                 \/ \E r \in DOMAIN reqs : Clear(r)
                 \/ \E r \in DOMAIN reqs : Parse(r)
                 \/ \E r \in DOMAIN reqs : Plot(r)
                 \/ \E r \in DOMAIN reqs : Format(r)
                 \/ \E r \in DOMAIN reqs : Save(r)

NextServer == \/ AcceptRequest
              \/ WriteMetrics
              \/ \E r \in DOMAIN reqs : Figure(r)
              \/ \E r \in DOMAIN reqs : Clear(r)
              \/ \E r \in DOMAIN reqs : Parse(r)
              \/ \E r \in DOMAIN reqs : Plot(r)
              \/ \E r \in DOMAIN reqs : Format(r)
              \/ \E r \in DOMAIN reqs : Save(r)

\* requests handled one after another
SpecServerSeq == InitServer /\ [][NextServerSeq]_vars

\* requests handled by concurrent threads (Flask's development server)
SpecServer == InitServer /\ [][NextServer]_vars

-----------------------------------------------------------------------------
(* Claims about the Batch Report Generator's main()                        *)

Order == <<"overall_trend", "stage_breakdown", "stage_trends", "cache_effectiveness">>
Loaded == summaryFile.exists /\ detailFile.exists
Ended == pc \in {"done", "crashed"}
CacheDiagnostic == Msg("Cache data not available in summary file", <<>>)
LacksCacheColumn == "CachedFiles" \notin summaryFile.cols \/ "FileCount" \notin summaryFile.cols

\* whether chart operation op raises on the loaded tables
Raises(op) ==
    CASE op = "overall_trend" -> ~visualize_overall_trend(summaryFile).ok
      [] op = "stage_breakdown" ->
            \/ "Duration(ms)" \notin detailFile.cols
            \/ \E s \in sort_values(LatestRun(detailFile.rows)) :
                  ~visualize_stage_breakdown(detailFile, s).ok
      [] op = "stage_trends" -> ~visualize_stage_trends(detailFile).ok
      [] op = "cache_effectiveness" -> ~visualize_cache_effectiveness(summaryFile).ok

\* C1: when the summary file or the detail file is missing, the run ends after
\* one diagnostic naming the missing path, and every output file keeps the
\* existence and content it had before the run.
C1_MissingInputNoOutput ==
    ~Loaded =>
       /\ outputs = outputs0
       /\ attempted = {}
       /\ pc \in {"start", "done"}
       /\ pc = "done" =>
             /\ Len(stdout) = 1
             /\ stdout[1] = IF ~summaryFile.exists
                            THEN Msg("Error: Summary file not found at",
                                     <<"metrics/performance_summary.csv">>)
                            ELSE Msg("Error: Details file not found at",
                                     <<"metrics/performance_details.csv">>)

C1_Witness ==
    /\ pc = "done"
    /\ summaryFile.exists
    /\ ~detailFile.exists
    /\ outputs0["cache_effectiveness.png"] = OldOutput
    /\ outputs0["overall_trend.png"] = NoOutput
    /\ Len(stdout) = 1

\* C2 as stated: when a chart operation fails, each of the other three chart
\* operations is still attempted in the run.
C2_AllAttemptedDespiteFailure ==
    (Loaded /\ pc = "crashed") => attempted = ChartOps

\* C2 amended: the chart operations run in the order overall trend, stage
\* breakdown, stage trends, cache effectiveness, and the first one that raises
\* ends the run: the operations before it were attempted, the ones after it
\* are not attempted and their output files are left as they were; all four
\* are attempted only when none raises.
C2_FirstFailureEndsRun ==
    (Loaded /\ Ended) =>
       LET failing == {k \in 1..4 : Raises(Order[k])}
       IN  IF failing = {}
           THEN pc = "done" /\ attempted = ChartOps
           ELSE LET k == CHOOSE i \in failing : \A j \in failing : i <= j
                IN  /\ pc = "crashed"
                    /\ attempted = {Order[i] : i \in 1..k}
                    /\ \A i \in k..4 : outputs[OutputOf(Order[i])] = outputs0[OutputOf(Order[i])]
                    /\ \A i \in 1..(k - 1) : outputs[OutputOf(Order[i])].kind = Order[i]

C2_Witness ==
    /\ pc = "crashed"
    /\ attempted = {"overall_trend", "stage_breakdown"}
    /\ outputs["overall_trend.png"].kind = "overall_trend"
    /\ outputs["stage_trends.png"] = outputs0["stage_trends.png"]

-----------------------------------------------------------------------------
(* Claims about the chart functions                                        *)

BagOf(s) == [x \in Range(s) |-> Cardinality({i \in DOMAIN s : s[i] = x})]
Abs(n) == IF n < 0 THEN -n ELSE n

\* what visualize_stage_breakdown drew: the saved file, or the figure left
\* open when it raised after drawing
BreakdownDone == pc \in {"stage_trends", "crashed"} /\ "stage_breakdown" \in attempted
BreakdownChart ==
    IF pc = "stage_trends" THEN outputs["stage_breakdown.png"] ELSE figs[Len(figs)].artists

RowsOfLatestRun ==
    SelectSeq(detailFile.rows,
              LAMBDA r : \A i \in DOMAIN detailFile.rows : detailFile.rows[i].Timestamp <= r.Timestamp)

\* C6: for a non-empty detail table the bars are exactly the rows whose
\* timestamp is the maximum timestamp of the table (each such row one bar, no
\* other row a bar), in order of descending duration (rows without a duration
\* come last).
C6_BarsAreLatestRunDescending ==
    (BreakdownDone /\ detailFile.rows # <<>>) =>
       LET bars == BreakdownChart.bars
       IN  /\ BagOf([i \in DOMAIN bars |-> <<bars[i].stage, bars[i].height>>])
                = BagOf([i \in DOMAIN RowsOfLatestRun |->
                           <<RowsOfLatestRun[i].Stage, RowsOfLatestRun[i].Duration>>])
           /\ \A i, j \in DOMAIN bars :
                 (i < j /\ bars[j].height # NaN) =>
                    (bars[i].height # NaN /\ bars[i].height >= bars[j].height)

C6_Witness ==
    /\ pc = "stage_trends"
    /\ Len(detailFile.rows) = 3
    /\ detailFile.rows[1].Timestamp = 2
    /\ detailFile.rows[2].Timestamp = 1
    /\ detailFile.rows[3].Timestamp = 2
    /\ detailFile.rows[1].Duration = 124
    /\ detailFile.rows[2].Duration = 126
    /\ detailFile.rows[3].Duration = 126
    /\ Len(outputs["stage_breakdown.png"].bars) = 2
    /\ outputs["stage_breakdown.png"].bars[1].height = 126
    /\ outputs["stage_breakdown.png"].bars[2].height = 124

\* C9 as stated: the label above a bar is the bar's duration rounded to the
\* nearest integer (12.4 gives 12, 12.6 gives 13).
C9_LabelIsNearestInteger ==
    BreakdownDone =>
       \A i \in DOMAIN BreakdownChart.labels :
          2 * Abs(10 * BreakdownChart.labels[i].text - BreakdownChart.bars[i].height) <= 10

\* C9 amended: the label above a bar is the integer part of the bar's
\* duration, the fraction dropped (12.4 gives 12 and 12.6 gives 12), and the
\* bar's height is the unrounded duration of its row.
C9_LabelIsIntegerPart ==
    BreakdownDone =>
       LET c == BreakdownChart
       IN  /\ pc = "stage_trends" => Len(c.labels) = Len(c.bars)
           /\ \A i \in DOMAIN c.labels :
                 /\ 10 * c.labels[i].text <= c.bars[i].height
                 /\ c.bars[i].height < 10 * c.labels[i].text + 10
                 /\ c.labels[i].x = c.bars[i].x
                 /\ \E k \in DOMAIN detailFile.rows :
                       /\ detailFile.rows[k].Stage = c.bars[i].stage
                       /\ detailFile.rows[k].Duration = c.bars[i].height

C9_Witness ==
    /\ pc = "stage_trends"
    /\ Len(outputs["stage_breakdown.png"].labels) = 2
    /\ outputs["stage_breakdown.png"].bars[1].height = 126
    /\ outputs["stage_breakdown.png"].labels[1].text = 12
    /\ outputs["stage_breakdown.png"].bars[2].height = 124
    /\ outputs["stage_breakdown.png"].labels[2].text = 12

TrendsDone == pc = "cache_effectiveness" /\ "stage_trends" \in attempted

\* the value stage_trends.png shows for stage st at timestamp ts; NaN when no
\* point is drawn there
PlottedValue(ts, st) ==
    LET lines == outputs["stage_trends.png"].lines
    IN  IF st \in DOMAIN lines /\ \E i \in DOMAIN lines[st] : lines[st][i][1] = ts
        THEN lines[st][CHOOSE i \in DOMAIN lines[st] : lines[st][i][1] = ts][2]
        ELSE NaN

RowsOfPair(ts, st) == {i \in DOMAIN detailFile.rows :
                         detailFile.rows[i].Timestamp = ts /\ detailFile.rows[i].Stage = st}
ValuedRowsOfPair(ts, st) == {i \in RowsOfPair(ts, st) : detailFile.rows[i].Duration # NaN}
Least(S) == CHOOSE i \in S : \A j \in S : i <= j

\* C7 as stated: the value plotted for a (timestamp, stage) pair is the
\* duration of the first row in file order with that pair, whatever that
\* duration is, a missing one included.
C7_FirstRowWins ==
    TrendsDone =>
       \A ts \in Timestamps, st \in Stages :
          RowsOfPair(ts, st) # {} =>
             PlottedValue(ts, st) = detailFile.rows[Least(RowsOfPair(ts, st))].Duration

\* C7 amended: the value plotted for a (timestamp, stage) pair is the duration
\* of the first row in file order that has that pair and a duration that is
\* not missing; later rows with the pair have no effect, and nothing is
\* plotted for a pair all of whose rows lack a duration.
C7_FirstValuedRowWins ==
    TrendsDone =>
       \A ts \in Timestamps, st \in Stages :
          PlottedValue(ts, st) =
             IF ValuedRowsOfPair(ts, st) = {} THEN NaN
             ELSE detailFile.rows[Least(ValuedRowsOfPair(ts, st))].Duration

C7_Witness ==
    /\ TrendsDone
    /\ Len(detailFile.rows) = 3
    /\ detailFile.rows[1] = DetailRow(1, "parse", NaN)
    /\ detailFile.rows[2] = DetailRow(1, "parse", 124)
    /\ detailFile.rows[3] = DetailRow(1, "parse", 126)
    /\ PlottedValue(1, "parse") = 124

CacheDone == pc = "done" /\ "cache_effectiveness" \in attempted

\* C8: every summary row with a non-zero total has one annotation, at its
\* positional run index, reading cached/total as a percentage to one decimal
\* place (the nearest tenth; FileCount=10, CachedFiles=4 reads 40.0%); a row
\* whose total is zero has no annotation, and the chart is produced.
C8_AnnotationPerNonZeroRow ==
    CacheDone =>
       LET c == outputs["cache_effectiveness.png"]
           rows == summaryFile.rows
       IN  /\ c.kind = "cache_effectiveness"
           /\ Len(c.bars1) = Len(rows)
           /\ \A k \in DOMAIN c.annotations : c.annotations[k].x + 1 \in DOMAIN rows
           /\ \A k, l \in DOMAIN c.annotations :
                 k < l => c.annotations[k].x < c.annotations[l].x
           /\ \A i \in DOMAIN rows :
                 LET at == {k \in DOMAIN c.annotations : c.annotations[k].x = i - 1}
                 IN  IF rows[i].FileCount = 0 THEN at = {}
                     ELSE /\ Cardinality(at) = 1
                          /\ \A k \in at :
                                LET t == c.annotations[k].text
                                    tenths == 10 * t.whole + t.frac
                                IN  /\ t.frac \in 0..9
                                    /\ t.suffix = "%"
                                    /\ 2 * Abs(tenths * rows[i].FileCount
                                               - 1000 * rows[i].CachedFiles) <= rows[i].FileCount
                                    /\ (rows[i].FileCount = 10 /\ rows[i].CachedFiles = 4)
                                          => (t.whole = 40 /\ t.frac = 0)

C8_Witness ==
    /\ CacheDone
    /\ Len(summaryFile.rows) = 2
    /\ summaryFile.rows[1].FileCount = 0
    /\ summaryFile.rows[2].FileCount = 10
    /\ summaryFile.rows[2].CachedFiles = 4
    /\ outputs["cache_effectiveness.png"].annotations =
          <<[x |-> 1, y |-> 15, text |-> [whole |-> 40, frac |-> 0, suffix |-> "%"]]>>

-----------------------------------------------------------------------------
(* Claims about the Live Plot Server                                       *)

\* the figure create_plot() draws from the file contents data, on its own
RenderAlone(data) ==
    [kind |-> "throughput",
     lines |-> <<[x |-> [i \in DOMAIN data |->
                           [time |-> data[i].timestamp.time, utcoffset |-> 0]],
                  y |-> [i \in DOMAIN data |-> data[i].files_per_second_wall_time]]>>,
     title |-> "Files Processed per Second Over Time",
     formatter |-> "%H:%M:%S"]

Answered(r) == r \in DOMAIN reqs /\ reqs[r].pc = "done"
Served(r) == Answered(r) /\ reqs[r].response.status = 200

\* C4: with requests handled one after another, every image answered to
\* GET /plot is the rendering of the contents metrics/metrics.json had when
\* that request read it, with nothing of an earlier request in it, and is a
\* non-empty image/png payload; a request is answered with an image whenever
\* the file it read was a readable JSON array, also when the file did not
\* change since the previous request.
C4_RenderedFromCurrentFile ==
    \A r \in DOMAIN reqs :
       /\ Served(r) =>
             /\ reqs[r].response.mimetype = "image/png"
             /\ Len(reqs[r].response.body) > 0
             /\ reqs[r].response.body = PngEncode(RenderAlone(reqs[r].src))
       /\ (Answered(r) /\ reqs[r].ver = fileVer) =>
             /\ Served(r) <=> (metricsFile.exists /\ metricsFile.valid)
             /\ Served(r) => reqs[r].src = metricsFile.data

C4_Witness ==
    /\ Len(reqs) >= 2
    /\ Served(1)
    /\ Served(2)
    /\ reqs[1].ver = reqs[2].ver
    /\ reqs[1].src # <<>>
    /\ reqs[2].response.body = reqs[1].response.body
    /\ Len(figs) = 2

\* C5: under any interleaving of concurrently handled requests, the image a
\* request returns holds exactly the one series that request read from the
\* file, and nothing drawn by another request.
C5_NoCrossRequestState ==
    \A r \in DOMAIN reqs :
       Served(r) =>
          reqs[r].response.body[2].image.lines =
             <<[x |-> reqs[r].timestamps, y |-> reqs[r].fps]>>

\* C10: whenever no chart operation is in progress, the open figures are the
\* ones open before the first operation (none): no completed chart operation
\* leaves a figure behind.
C10_FiguresDisposed ==
    (pc \in {"start", "done"} /\ \A r \in DOMAIN reqs : Served(r)) => figs = <<>>

====
